---- MODULE Spec2Model ----
(***************************************************************************)
(* Model of luakit's web-extension "extension" class                       *)
(* (extension/clib/extension.c): the page-created event adapter, the       *)
(* deferred-emission queue, the replay driver and the signal emission     *)
(* path, together with the part of the Lua state they act on (stack,      *)
(* registry slot, the global "extension").                                *)
(***************************************************************************)
EXTENDS Integers, Sequences, FiniteSets, TLC

(* ---- bounds ---- *)
NumPages == 3        \* native pages the host can create (one event each)
MaxFlush == 2        \* calls of extension_class_emit_pending_signals
MaxListeners == 1    \* handlers scripts attach to "page-created"
NumRefs == 3         \* registry slots luaL_ref can hand out

Pages == 1..NumPages
Refs == 1..NumRefs

(* ---- Lua values ---- *)
Nil == [class |-> "nil", id |-> 0]
OtherTable == [class |-> "table", id |-> 1]
ExtensionObj(n) == [class |-> "extension", id |-> n]
PageObj(web_page) == [class |-> "page", id |-> web_page]

(* ---- C pointers ---- *)
NULL == "NULL"
ARRAY == "GPtrArray"

VARIABLES
    pc,                 \* "uninit" | "running" | "aborted"
    connected,          \* page_created_cb connected to the host signal
    queued_emissions,   \* GPtrArray *queued_emissions: NULL or ARRAY
    pdata,              \* contents of the GPtrArray (when it is live)
    extension_ref,      \* gint extension_ref
    registry,           \* LUA_REGISTRYINDEX table, integer keys
    global_extension,   \* value of the Lua global "extension"
    extension_objs,     \* ids of the objects of extension_class created
    stack,              \* Lua stack of L
    nlisteners,         \* handlers attached to "page-created" on the singleton
    emissions,          \* log of luaH_object_emit_signal calls
    fired,              \* history: handles of the events fired by the host
    replayLog,          \* history: handles emitted from inside a flush
    flushCalls,         \* history: calls of the flush made so far
    reboundAt,          \* history: emissions logged when a script first
                        \* reassigned the global "extension" (-1: never)
    destroyed,          \* native pages the host has destroyed
    invoked,            \* history: calls of emit_page_created_signal, each
                        \* with its handle and whether the page was dead
    inflight            \* position of a flush run statement by statement

vars == <<pc, connected, queued_emissions, pdata, extension_ref, registry,
          global_extension, extension_objs, stack, nlisteners, emissions,
          fired, replayLog, flushCalls, reboundAt, destroyed, invoked, inflight>>

(* ---- Lua C API, as used by the emission path ---- *)
\* A Lua execution context: the stack, the emission log and the error flag
\* (a raised Lua error unwinds; nothing after it runs), the calls of the
\* emission path made in it, and the dead handles on which a dangling access
\* kills the process instead of reading stale memory.
LuaCtx(st, em) == [stack |-> st, emissions |-> em, err |-> FALSE,
                   invoked |-> <<>>, crashOn |-> {}]

AbsIndex(st, i) == IF i < 0 THEN Len(st) + 1 + i ELSE i

Push(S, v) == [S EXCEPT !.stack = Append(@, v)]

lua_pop_none(S, n) == S

lua_pop(S, n) == [S EXCEPT !.stack = SubSeq(@, 1, Len(@) - n)]

RegistryGet(n) == IF n \in DOMAIN registry THEN registry[n] ELSE Nil

lua_rawgeti_global(S, n) == Push(S, global_extension)

lua_rawgeti(S, n) == Push(S, RegistryGet(n))

luaH_checkudata_lax(S, ud, class) == S

luaH_checkudata(S, ud, class) ==
    IF S.stack[AbsIndex(S.stack, ud)].class = class
    THEN S
    ELSE [S EXCEPT !.err = TRUE]

luaH_page_from_web_page_first(S, web_page) == Push(S, PageObj(1))

luaH_page_from_web_page(S, web_page) ==
    IF web_page \in destroyed /\ web_page \in S.crashOn
    THEN [S EXCEPT !.err = TRUE]
    ELSE Push(S, PageObj(web_page))

EmitRecord(st, oud, name, nargs, nret) ==
    [obj |-> st[AbsIndex(st, oud)],
     name |-> name,
     args |-> SubSeq(st, Len(st) - nargs + 1, Len(st)),
     nret |-> nret,
     ncalls |-> nlisteners]

luaH_object_emit_signal_top(S, oud, name, nargs, nret) ==
    [S EXCEPT !.emissions = Append(@, EmitRecord(S.stack, -1, name, nargs, nret)),
              !.stack = SubSeq(@, 1, Len(@) - nargs)]

luaH_object_emit_signal(S, oud, name, nargs, nret) ==
    [S EXCEPT !.emissions = Append(@, EmitRecord(S.stack, oud, name, nargs, nret)),
              !.stack = SubSeq(@, 1, Len(@) - nargs)]

(* ---- emit_page_created_signal ---- *)
emit_page_created_signal(web_page, S) ==
    IF S.err THEN S
    ELSE LET S0 == [S EXCEPT !.invoked = Append(@,
                       [handle |-> web_page, dead |-> web_page \in destroyed])]
             S1 == lua_rawgeti(S0, extension_ref)
             S2 == luaH_checkudata(S1, -1, "extension")
         IN  IF S2.err THEN S2
             ELSE LET S3 == luaH_page_from_web_page(S2, web_page)
                  IN  IF S3.err THEN S3
                      ELSE lua_pop(luaH_object_emit_signal(
                               S3, -2, "page-created", 1, 0), 1)

(* ---- GPtrArray ---- *)
g_ptr_array_add_front(pd, data) == <<data>> \o pd

g_ptr_array_add_replace(pd, data) == <<data>>

g_ptr_array_add(pd, data) == Append(pd, data)

RECURSIVE ForeachFrom(_, _, _)
ForeachFrom(pd, i, S) ==
    IF i > Len(pd) THEN S
    ELSE ForeachFrom(pd, i + 1, emit_page_created_signal(pd[i], S))

Reverse(s) == [i \in 1..Len(s) |-> s[Len(s) + 1 - i]]

g_ptr_array_foreach_lifo(pd, S) == ForeachFrom(Reverse(pd), 1, S)

g_ptr_array_foreach_short(pd, S) ==
    ForeachFrom(SubSeq(pd, 1, Len(pd) - 1), 1, S)

g_ptr_array_foreach_live(pd, S) ==
    ForeachFrom(SelectSeq(pd, LAMBDA h : h \notin destroyed), 1, S)

g_ptr_array_foreach(pd, S) == ForeachFrom(pd, 1, S)

(* ---- luaL_ref: the first free integer key of the registry ---- *)
FreeRefs == {r \in Refs : registry[r] = Nil}
luaL_ref_slot == CHOOSE r \in FreeRefs : \A q \in FreeRefs : r <= q

(* ---- handles of the emissions logged after position n ---- *)
HandlesFrom(em, n) == [i \in 1..(Len(em) - n) |-> em[n + i].args[1].id]

Range(s) == {s[i] : i \in 1..Len(s)}

(* ---- luaH_extension_new: a new object of extension_class on the stack ---- *)
luaH_extension_new(S) ==
    LET S1 == Push(S, OtherTable)                                  \* lua_newtable
        S2 == Push(S1, ExtensionObj(Cardinality(extension_objs) + 1)) \* luaH_class_new
    IN  [S2 EXCEPT !.stack =                                       \* lua_remove(L, -2)
            SubSeq(@, 1, Len(@) - 2) \o <<@[Len(@)]>>]

\* what the embedder may have left on the stack of L
BaseStacks == {<<>>, <<OtherTable>>}

Init ==
    /\ pc = "uninit"
    /\ connected = FALSE
    /\ queued_emissions = NULL
    /\ pdata = <<>>
    /\ extension_ref = 0
    /\ registry = [r \in Refs |-> IF r = 1 THEN OtherTable ELSE Nil]
    /\ global_extension = Nil
    /\ extension_objs = {}
    /\ stack \in BaseStacks
    /\ nlisteners = 0
    /\ emissions = <<>>
    /\ fired = <<>>
    /\ replayLog = <<>>
    /\ flushCalls = 0
    /\ reboundAt = -1
    /\ destroyed = {}
    /\ invoked = <<>>
    /\ inflight = [pc |-> "idle", i |-> 0, len0 |-> 0, nested |-> 0, threads |-> 0]

(* ---- extension_class_setup ---- *)
extension_class_setup_noqueue ==
    /\ pc = "uninit"
    /\ LET S1 == luaH_extension_new(LuaCtx(stack, emissions))
           obj == S1.stack[Len(S1.stack)]
       IN  /\ extension_objs' = extension_objs \cup {obj.id}
           /\ global_extension' = obj
           /\ registry' = [registry EXCEPT ![luaL_ref_slot] = obj]
           /\ extension_ref' = luaL_ref_slot
    /\ connected' = TRUE
    /\ pc' = "running"
    /\ UNCHANGED <<queued_emissions, pdata, stack>>
    /\ UNCHANGED <<nlisteners, emissions, fired, replayLog, flushCalls, reboundAt>>
    /\ UNCHANGED <<destroyed, invoked, inflight>>

extension_class_setup ==
    /\ pc = "uninit"
    /\ LET S1 == luaH_extension_new(LuaCtx(stack, emissions))
           obj == S1.stack[Len(S1.stack)]
           S2 == lua_pop(S1, 1)                 \* lua_setglobal pops the value
           S3 == Push(S2, obj)                  \* lua_getglobal pushes it back
           ref == luaL_ref_slot
           S4 == lua_pop(S3, 1)                 \* luaL_ref pops the value
       IN  /\ extension_objs' = extension_objs \cup {obj.id}
           /\ global_extension' = obj
           /\ registry' = [registry EXCEPT ![ref] = S3.stack[Len(S3.stack)]]
           /\ extension_ref' = ref
           /\ stack' = S4.stack
    /\ queued_emissions' = ARRAY
    /\ pdata' = <<>>
    /\ connected' = TRUE
    /\ pc' = "running"
    /\ UNCHANGED <<nlisteners, emissions, fired, replayLog, flushCalls, reboundAt>>
    /\ UNCHANGED <<destroyed, invoked, inflight>>

(* ---- page_created_cb: the host fires page-created for a new page ---- *)
page_created_cb_requeue(web_page) ==
    /\ pc = "running"
    /\ connected
    /\ web_page \notin Range(fired)
    /\ fired' = Append(fired, web_page)
    /\ queued_emissions' = ARRAY
    /\ pdata' = g_ptr_array_add(pdata, web_page)
    /\ UNCHANGED <<pc, stack, emissions>>
    /\ UNCHANGED <<connected, extension_ref, registry, global_extension,
                   extension_objs, nlisteners, replayLog, flushCalls,
                   reboundAt, destroyed, invoked, inflight>>

page_created_cb_eager(web_page) ==
    /\ pc = "running"
    /\ connected
    /\ web_page \notin Range(fired)
    /\ fired' = Append(fired, web_page)
    /\ LET S == emit_page_created_signal(web_page, LuaCtx(stack, emissions))
       IN  /\ stack' = S.stack
           /\ emissions' = S.emissions
           /\ pc' = IF S.err THEN "aborted" ELSE pc
           /\ invoked' = invoked \o S.invoked
    /\ pdata' = IF queued_emissions # NULL
                THEN g_ptr_array_add(pdata, web_page) ELSE pdata
    /\ UNCHANGED <<connected, queued_emissions, extension_ref, registry,
                   global_extension, extension_objs, nlisteners, replayLog,
                   flushCalls, reboundAt, destroyed, inflight>>

page_created_cb(web_page) ==
    /\ pc = "running"
    /\ connected
    /\ web_page \notin Range(fired)
    /\ fired' = Append(fired, web_page)
    /\ IF queued_emissions # NULL
       THEN /\ pdata' = g_ptr_array_add(pdata, web_page)
            /\ UNCHANGED <<pc, stack, emissions, invoked>>
       ELSE LET S == emit_page_created_signal(web_page, LuaCtx(stack, emissions))
            IN  /\ stack' = S.stack
                /\ emissions' = S.emissions
                /\ invoked' = invoked \o S.invoked
                /\ pc' = IF S.err THEN "aborted" ELSE pc
                /\ UNCHANGED pdata
    /\ UNCHANGED <<connected, queued_emissions, extension_ref, registry,
                   global_extension, extension_objs, nlisteners, replayLog,
                   flushCalls, reboundAt, destroyed, inflight>>

(* ---- extension_class_emit_pending_signals ---- *)
\* GLib called with a NULL array: g_return_if_fail logs a critical and
\* returns; with fatal criticals or with the checks compiled out the
\* process dies instead.
NullArrayOutcomes == {"critical", "crash"}

extension_class_emit_pending_signals_keep ==
    /\ pc = "running"
    /\ flushCalls < MaxFlush
    /\ flushCalls' = flushCalls + 1
    /\ LET S == g_ptr_array_foreach(pdata, LuaCtx(stack, emissions))
       IN  /\ stack' = S.stack
           /\ emissions' = S.emissions
           /\ replayLog' = replayLog \o HandlesFrom(S.emissions, Len(emissions))
           /\ invoked' = invoked \o S.invoked
           /\ pdata' = <<>>
           /\ UNCHANGED <<pc, queued_emissions>>
    /\ UNCHANGED <<connected, extension_ref, registry, global_extension,
                   extension_objs, nlisteners, fired, reboundAt, destroyed, inflight>>

extension_class_emit_pending_signals ==
    /\ pc = "running"
    /\ flushCalls < MaxFlush
    /\ flushCalls' = flushCalls + 1
    /\ IF queued_emissions # NULL
       THEN \E crashOn \in SUBSET (Range(pdata) \cap destroyed) :
            LET S == g_ptr_array_foreach(pdata,
                         [LuaCtx(stack, emissions) EXCEPT !.crashOn = crashOn])
            IN  /\ stack' = S.stack
                /\ emissions' = S.emissions
                /\ invoked' = invoked \o S.invoked
                /\ replayLog' = replayLog \o HandlesFrom(S.emissions, Len(emissions))
                /\ IF S.err
                   THEN /\ pc' = "aborted"
                        /\ UNCHANGED <<queued_emissions, pdata>>
                   ELSE /\ pdata' = <<>>               \* g_ptr_array_free
                        /\ queued_emissions' = NULL
                        /\ UNCHANGED pc
       ELSE \E outcome \in NullArrayOutcomes :
                /\ pc' = IF outcome = "crash" THEN "aborted" ELSE pc
                /\ queued_emissions' = NULL
                /\ UNCHANGED <<pdata, stack, emissions, replayLog, invoked>>
    /\ UNCHANGED <<connected, extension_ref, registry, global_extension,
                   extension_objs, nlisteners, fired, reboundAt, destroyed, inflight>>

(* ---- scripting code running in the same Lua state ---- *)
ScriptValues == {Nil, OtherTable}

ScriptSetGlobal(v) ==
    /\ pc = "running"
    /\ v # global_extension
    /\ global_extension' = v
    /\ reboundAt' = IF reboundAt = -1 THEN Len(emissions) ELSE reboundAt
    /\ UNCHANGED <<pc, connected, queued_emissions, pdata, extension_ref,
                   registry, extension_objs, stack, nlisteners, emissions,
                   fired, replayLog, flushCalls, destroyed, invoked, inflight>>

ScriptAddListener ==
    /\ pc = "running"
    /\ nlisteners < MaxListeners
    /\ nlisteners' = nlisteners + 1
    /\ UNCHANGED <<pc, connected, queued_emissions, pdata, extension_ref,
                   registry, global_extension, extension_objs, stack,
                   emissions, fired, replayLog, flushCalls, reboundAt,
                   destroyed, invoked, inflight>>

\* The registry slot is overwritten (debug.getregistry) or the singleton
\* is lost from it.
CorruptRegistry(v) ==
    /\ pc = "running"
    /\ registry[extension_ref] # v
    /\ registry' = [registry EXCEPT ![extension_ref] = v]
    /\ UNCHANGED <<pc, connected, queued_emissions, pdata, extension_ref,
                   global_extension, extension_objs, stack, nlisteners,
                   emissions, fired, replayLog, flushCalls, reboundAt,
                   destroyed, invoked, inflight>>

Next ==
    \/ extension_class_setup
    \/ \E web_page \in Pages : page_created_cb(web_page)
    \/ extension_class_emit_pending_signals
    \/ \E v \in ScriptValues : ScriptSetGlobal(v)
    \/ ScriptAddListener

Spec == Init /\ [][Next]_vars

NextCorrupt ==
    \/ Next
    \/ \E v \in ScriptValues : CorruptRegistry(v)

SpecCorrupt == Init /\ [][NextCorrupt]_vars

(* ---- the host destroys a page it created earlier ---- *)
\* Nothing in extension.c is told about it: the queue keeps the pointer.
HostDestroyPage(web_page) ==
    /\ pc = "running"
    /\ web_page \in Range(fired) \ destroyed
    /\ destroyed' = destroyed \cup {web_page}
    /\ UNCHANGED <<pc, connected, queued_emissions, pdata, extension_ref,
                   registry, global_extension, extension_objs, stack,
                   nlisteners, emissions, fired, replayLog, flushCalls,
                   reboundAt, invoked, inflight>>

NextDestroy ==
    \/ Next
    \/ \E web_page \in Pages : HostDestroyPage(web_page)

SpecDestroy == Init /\ [][NextDestroy]_vars

TypeOK ==
    /\ pc \in {"uninit", "running", "aborted"}
    /\ queued_emissions \in {NULL, ARRAY}
    /\ extension_ref \in {0} \cup Refs
    /\ flushCalls \in 0..MaxFlush

(* ---- the flush statement by statement, with adapter calls in flight ---- *)
\* g_ptr_array_foreach tests i < array->len before every iteration.
ForeachBound_cached(pd, len0) == len0

ForeachBound(pd, len0) == Len(pd)

\* line 96 is entered: the loop starts at the first element
FlushBegin ==
    /\ pc = "running"
    /\ inflight.pc = "idle"
    /\ flushCalls = 0
    /\ queued_emissions # NULL
    /\ flushCalls' = flushCalls + 1
    /\ inflight' = [inflight EXCEPT !.pc = "loop", !.i = 1, !.len0 = Len(pdata)]
    /\ UNCHANGED <<pc, connected, queued_emissions, pdata, extension_ref,
                   registry, global_extension, extension_objs, stack,
                   nlisteners, emissions, fired, replayLog, reboundAt,
                   destroyed, invoked>>

\* one iteration of line 96: emit_page_created_signal(pdata[i], L); a
\* listener called by the emission may make the host fire page-created for
\* a new page, which runs page_created_cb inside the iteration.
FlushIter(nested) ==
    /\ pc = "running"
    /\ inflight.pc = "loop"
    /\ inflight.i <= ForeachBound(pdata, inflight.len0)
    /\ nested # 0 => (nlisteners >= 1 /\ nested \notin Range(fired))
    /\ LET S == emit_page_created_signal(pdata[inflight.i], LuaCtx(stack, emissions))
       IN  /\ stack' = S.stack
           /\ emissions' = S.emissions
           /\ invoked' = invoked \o S.invoked
           /\ replayLog' = replayLog \o HandlesFrom(S.emissions, Len(emissions))
           /\ pc' = IF S.err THEN "aborted" ELSE pc
    /\ IF nested # 0
       THEN /\ fired' = Append(fired, nested)
            /\ pdata' = IF queued_emissions # NULL
                        THEN g_ptr_array_add(pdata, nested) ELSE pdata
       ELSE UNCHANGED <<fired, pdata>>
    /\ inflight' = [inflight EXCEPT !.i = @ + 1,
                        !.nested = IF nested # 0 THEN @ + 1 ELSE @]
    /\ UNCHANGED <<connected, queued_emissions, extension_ref, registry,
                   global_extension, extension_objs, nlisteners, flushCalls,
                   reboundAt, destroyed>>

\* the loop test fails: g_ptr_array_foreach returns
FlushReturn ==
    /\ pc = "running"
    /\ inflight.pc = "loop"
    /\ inflight.i > ForeachBound(pdata, inflight.len0)
    /\ inflight' = [inflight EXCEPT !.pc = "free"]
    /\ UNCHANGED <<pc, connected, queued_emissions, pdata, extension_ref,
                   registry, global_extension, extension_objs, stack,
                   nlisteners, emissions, fired, replayLog, flushCalls,
                   reboundAt, destroyed, invoked>>

\* line 97: g_ptr_array_free(queued_emissions, TRUE)
FlushFree ==
    /\ pc = "running"
    /\ inflight.pc = "free"
    /\ pdata' = <<>>
    /\ inflight' = [inflight EXCEPT !.pc = "null"]
    /\ UNCHANGED <<pc, connected, queued_emissions, extension_ref,
                   registry, global_extension, extension_objs, stack,
                   nlisteners, emissions, fired, replayLog, flushCalls,
                   reboundAt, destroyed, invoked>>

\* line 98: queued_emissions = NULL
FlushNull ==
    /\ pc = "running"
    /\ inflight.pc = "null"
    /\ queued_emissions' = NULL
    /\ inflight' = [inflight EXCEPT !.pc = "idle"]
    /\ UNCHANGED <<pc, connected, pdata, extension_ref,
                   registry, global_extension, extension_objs, stack,
                   nlisteners, emissions, fired, replayLog, flushCalls,
                   reboundAt, destroyed, invoked>>

\* page_created_cb run by another host thread while the flush is between
\* two statements. Nothing orders it with the flush: during the loop the
\* append races with the loop's reads (it lands, or the process dies); after
\* the loop it lands in an array that is about to be freed; after the free
\* it writes through the dangling pointer (unnoticed, or the process dies).
ThreadOutcomes(fpc) ==
    CASE fpc = "loop" -> {"append", "crash"}
      [] fpc = "free" -> {"append"}
      [] fpc = "null" -> {"stale", "crash"}

ThreadAdapterCall(web_page) ==
    /\ pc = "running"
    /\ connected
    /\ inflight.pc \in {"loop", "free", "null"}
    /\ web_page \notin Range(fired)
    /\ fired' = Append(fired, web_page)
    /\ queued_emissions # NULL
    /\ \E outcome \in ThreadOutcomes(inflight.pc) :
          /\ pdata' = IF outcome = "append"
                      THEN g_ptr_array_add(pdata, web_page) ELSE pdata
          /\ pc' = IF outcome = "crash" THEN "aborted" ELSE pc
    /\ inflight' = [inflight EXCEPT !.threads = @ + 1]
    /\ UNCHANGED <<connected, queued_emissions, extension_ref, registry,
                   global_extension, extension_objs, stack, nlisteners,
                   emissions, replayLog, flushCalls, reboundAt, destroyed,
                   invoked>>

NextInFlight ==
    \/ extension_class_setup
    \/ inflight.pc = "idle" /\ \E web_page \in Pages : page_created_cb(web_page)
    \/ ScriptAddListener
    \/ FlushBegin
    \/ \E nested \in {0} \cup Pages : FlushIter(nested)
    \/ FlushReturn
    \/ FlushFree
    \/ FlushNull
    \/ \E web_page \in Pages : ThreadAdapterCall(web_page)

SpecInFlight == Init /\ [][NextInFlight]_vars

(* ======================= properties ======================= *)
Singleton == ExtensionObj(1)
EmittedHandles == HandlesFrom(emissions, 0)
EmitCount(h) == Cardinality({i \in 1..Len(emissions) :
                    /\ emissions[i].name = "page-created"
                    /\ emissions[i].args = <<PageObj(h)>>})
\* steps of the three operations, read off the history variables
FlushStep == flushCalls' = flushCalls + 1
AdapterStep == fired' # fired
IsPrefix(a, b) == Len(a) <= Len(b) /\ SubSeq(b, 1, Len(a)) = a

\* C1: the events fired between setup and the flush are emitted by the
\* flush, all of them and in firing order (FIFO), for any number of events.
C1_ReplayIsFIFO ==
    [][(FlushStep /\ flushCalls = 0) =>
          /\ emissions = <<>>
          /\ HandlesFrom(emissions', 0) = fired
          /\ replayLog' = fired]_vars

C1_Witness == flushCalls = 1 /\ Len(replayLog) >= 2 /\ Len(fired) = Len(replayLog)

\* C2: with one setup and one flush, every fired event has at most one
\* page-created emission at any time, and exactly one once the flush has
\* happened; nothing is emitted that was not fired.
C2_ExactlyOnce ==
    flushCalls <= 1 =>
        /\ \A i \in 1..Len(fired) :
              /\ EmitCount(fired[i]) <= 1
              /\ flushCalls = 1 => EmitCount(fired[i]) = 1
        /\ Len(emissions) <= Len(fired)

C2_Witness ==
    /\ flushCalls = 1
    /\ Len(replayLog) >= 1
    /\ Len(fired) > Len(replayLog)
    /\ Len(emissions) = Len(fired)

\* C3: a flush called when the queue is already absent emits nothing, does
\* not fail and leaves the state Direct.
C3_NullFlushIsNoop ==
    [][(FlushStep /\ queued_emissions = NULL) =>
          /\ emissions' = emissions
          /\ pc' = "running"
          /\ queued_emissions' = NULL]_vars

\* C4: once the flush has completed, every later adapter call emits its
\* event within the call and buffers nothing.
C4_DirectAfterFlush ==
    [][(AdapterStep /\ flushCalls >= 1) =>
          /\ Len(emissions') = Len(emissions) + 1
          /\ SubSeq(emissions', 1, Len(emissions)) = emissions
          /\ emissions'[Len(emissions')].args = <<PageObj(fired'[Len(fired')])>>
          /\ queued_emissions' = NULL
          /\ pdata' = <<>>]_vars

C4_Witness == flushCalls >= 1 /\ Len(emissions) >= Len(replayLog) + 2

\* C5: across the flush the emission sequence is the firing sequence:
\* nothing is delivered while buffering, the flush delivers the buffered
\* events first and in order, later events follow in firing order.
C5_OverallOrder ==
    /\ flushCalls = 0 => emissions = <<>>
    /\ flushCalls >= 1 =>
          /\ EmittedHandles = fired
          /\ IsPrefix(replayLog, EmittedHandles)

C5_Witness ==
    /\ flushCalls = 1
    /\ Len(replayLog) = 2
    /\ Len(fired) = 3
    /\ Len(emissions) = 3

\* C6: after setup there is exactly one object of the extension class, the
\* registry slot extension_ref holds it, and every emission, direct or
\* replayed, targets it.
C6_SingletonTarget ==
    pc # "uninit" =>
        /\ Cardinality(extension_objs) = 1
        /\ RegistryGet(extension_ref) = Singleton
        /\ Singleton.id \in extension_objs
        /\ \A i \in 1..Len(emissions) : emissions[i].obj = Singleton

C6_Witness ==
    /\ Len(replayLog) >= 1
    /\ Len(emissions) > Len(replayLog)
    /\ nlisteners >= 1

\* C7: emissions made after a script has reassigned or cleared the global
\* "extension" still target the singleton and still succeed.
C7_RegistryNotGlobal ==
    reboundAt >= 0 =>
        /\ \A i \in (reboundAt + 1)..Len(emissions) : emissions[i].obj = Singleton
        /\ flushCalls <= 1 => pc = "running"
        /\ flushCalls >= 1 => Len(emissions) = Len(fired)

C7_Witness ==
    /\ reboundAt = 0
    /\ global_extension # Singleton
    /\ Len(replayLog) >= 1
    /\ Len(emissions) > Len(replayLog)

\* C8: once the queue reference is null after setup, no step makes it
\* non-null again or puts anything in the queue.
C8_OneWay ==
    [][(pc # "uninit" /\ queued_emissions = NULL) =>
          /\ queued_emissions' = NULL
          /\ pdata' = <<>>]_vars

C8_Witness ==
    /\ queued_emissions = NULL
    /\ flushCalls = MaxFlush
    /\ pc = "running"
    /\ Len(fired) > Len(replayLog)

\* C9: when the registry slot does not hold an extension object, a call of
\* the emission path aborts and logs no emission; no emission ever targets
\* an object of another class.
EmissionPathCalled ==
    \/ AdapterStep /\ queued_emissions = NULL
    \/ FlushStep /\ queued_emissions # NULL /\ pdata # <<>>

C9_FatalOnBadSlot ==
    [][/\ (EmissionPathCalled /\ RegistryGet(extension_ref).class # "extension") =>
              /\ pc' = "aborted"
              /\ emissions' = emissions
       /\ \A i \in 1..Len(emissions') : emissions'[i].obj.class = "extension"]_vars

C9_Witness ==
    /\ pc = "aborted"
    /\ flushCalls <= 1
    /\ RegistryGet(extension_ref).class # "extension"

\* C10: a queued event keeps its place in the queue until the flush, and
\* the flush that ends the buffering emits every queued event.
C10_NoCancellation ==
    [][(pc = "running" /\ queued_emissions # NULL) =>
          IF queued_emissions' # NULL
          THEN IsPrefix(pdata, pdata')
          ELSE /\ FlushStep
               /\ Len(emissions') = Len(emissions) + Len(pdata)
               /\ \A i \in 1..Len(pdata) :
                     emissions'[Len(emissions) + i].args = <<PageObj(pdata[i])>>]_vars

C10_Witness == flushCalls >= 1 /\ Len(replayLog) = NumPages

\* C11: an adapter call made while buffering appends its handle at the
\* tail of the queue, leaves the earlier entries alone and raises no signal.
C11_BufferAppendsOne ==
    [][(AdapterStep /\ queued_emissions # NULL) =>
          /\ pdata' = Append(pdata, fired'[Len(fired')])
          /\ emissions' = emissions
          /\ stack' = stack
          /\ queued_emissions' = queued_emissions]_vars

C11_Witness == flushCalls = 0 /\ Len(pdata) = 2 /\ emissions = <<>>

\* C12: a flush over N buffered events logs exactly N emissions and leaves
\* no queue; with N = 0 it logs none, does not fail, and the state is Direct.
C12_FlushEmitsN ==
    [][(FlushStep /\ queued_emissions # NULL) =>
          /\ Len(emissions') = Len(emissions) + Len(pdata)
          /\ pc' = "running"
          /\ queued_emissions' = NULL
          /\ pdata' = <<>>]_vars

C12_Witness ==
    /\ flushCalls = 1
    /\ fired = <<>>
    /\ emissions = <<>>
    /\ queued_emissions = NULL
    /\ pc = "running"

\* C13: a successful call of the emission path returns with the Lua stack
\* exactly as it found it, whatever the stack held on entry and however
\* many listeners are attached.
C13_StackRestored ==
    [][/\ (pc = "running" /\ RegistryGet(extension_ref).class = "extension") =>
              \A p \in Pages :
                  LET S == emit_page_created_signal(p, LuaCtx(stack, emissions))
                  IN  ~S.err /\ S.stack = stack
       /\ (Len(emissions') > Len(emissions) /\ pc' = "running") => stack' = stack]_vars

C13_Witness ==
    /\ stack # <<>>
    /\ \E i, j \in 1..Len(emissions) :
          emissions[i].ncalls = 0 /\ emissions[j].ncalls >= 1

\* C14: every emission raises "page-created" with exactly one argument and
\* no results, and the argument is the page object of the handle being
\* delivered: the adapter's handle when direct, the queue entry when replayed.
C14_SignalAndArgument ==
    [][/\ \A i \in 1..Len(emissions') :
              /\ emissions'[i].name = "page-created"
              /\ Len(emissions'[i].args) = 1
              /\ emissions'[i].args[1].class = "page"
              /\ emissions'[i].nret = 0
       /\ (AdapterStep /\ queued_emissions = NULL) =>
              /\ Len(emissions') = Len(emissions) + 1
              /\ emissions'[Len(emissions')].args[1] = PageObj(fired'[Len(fired')])
       /\ (FlushStep /\ queued_emissions # NULL) =>
              /\ Len(emissions') = Len(emissions) + Len(pdata)
              /\ \A i \in 1..Len(pdata) :
                    emissions'[Len(emissions) + i].args[1] = PageObj(pdata[i])]_vars

C14_Witness ==
    /\ Len(replayLog) = 2
    /\ Len(emissions) > 2
    /\ emissions[1].args # emissions[2].args

\* C17: once the adapter is connected the queue exists until the first
\* flush and the registry slot holds the singleton, so an adapter call
\* before the first flush buffers and nothing is emitted before it.
C17_ConnectedAfterState ==
    [][/\ connected' =>
              /\ extension_ref' \in Refs
              /\ registry'[extension_ref'] = Singleton
              /\ flushCalls' = 0 => (queued_emissions' = ARRAY /\ emissions' = <<>>)
       /\ (AdapterStep /\ flushCalls = 0) =>
              /\ connected
              /\ pdata' = Append(pdata, fired'[Len(fired')])]_vars

C17_Witness == connected /\ flushCalls = 0 /\ Len(pdata) = NumPages

\* C15: destroying a page leaves its handle in the queue, and the flush
\* calls the emission path on every queued handle up to and including the
\* first dead one, without looking at whether the page is still alive.
NewInvoked == SubSeq(invoked', Len(invoked) + 1, Len(invoked'))

C15_NoLivenessCheck ==
    [][/\ destroyed' # destroyed =>
              (pdata' = pdata /\ queued_emissions' = queued_emissions)
       /\ (FlushStep /\ queued_emissions # NULL) =>
              /\ Len(NewInvoked) <= Len(pdata)
              /\ \A i \in 1..Len(NewInvoked) :
                    NewInvoked[i] = [handle |-> pdata[i],
                                     dead |-> pdata[i] \in destroyed]
              /\ \A i \in 1..Len(pdata) :
                    (\A j \in 1..(i - 1) : pdata[j] \notin destroyed)
                        => Len(NewInvoked) >= i]_vars

C15_Witness ==
    /\ flushCalls = 1
    /\ pc = "running"
    /\ \E i \in 1..Len(invoked) : invoked[i].dead
    /\ \E i \in 1..Len(emissions) : emissions[i].args[1].id \in destroyed

\* C16 (as stated): the queue reference is non-null during the replay, and
\* an adapter call made while a flush is in progress, nested in a listener
\* or made by another host thread, is neither lost nor delivered ahead of
\* the buffered events.
FlushCompleted == flushCalls = 1 /\ inflight.pc = "idle"

C16_AtomicForAnyCaller ==
    /\ inflight.pc \in {"loop", "free"} => queued_emissions = ARRAY
    /\ IsPrefix(EmittedHandles, fired)
    /\ FlushCompleted => (pc = "running" /\ EmittedHandles = fired)

\* C16 (amended): the queue reference is non-null from the start of the
\* replay until line 98; as long as no other thread has called the adapter
\* during the flush, calls nested in a listener during replay are replayed
\* by the same flush, after the events buffered before them, and none is lost.
C16_AtomicSingleThread ==
    /\ inflight.pc \in {"loop", "free", "null"} => queued_emissions = ARRAY
    /\ inflight.threads = 0 =>
          /\ pc # "aborted"
          /\ IsPrefix(EmittedHandles, fired)
          /\ replayLog = EmittedHandles \/ FlushCompleted
          /\ inflight.pc \in {"loop", "free"} =>
                fired = EmittedHandles \o SubSeq(pdata, inflight.i, Len(pdata))
          /\ FlushCompleted => EmittedHandles = fired

C16_Witness ==
    /\ FlushCompleted
    /\ inflight.threads = 0
    /\ inflight.nested >= 1
    /\ Len(replayLog) = Len(fired)
    /\ Len(fired) >= 2

====
